---- MODULE Spec2Model ----
(***************************************************************************)
(* A model of the APK risk analyzer (src/analyzer/apk_analyzer.py) and of  *)
(* the two Flask handlers that use it (src/app.py).                        *)
(*                                                                         *)
(* Python values are modelled as follows.  A str is a TLA+ string, read    *)
(* character by character with SubSeq.  An optional value (None or x) is   *)
(* a record [none, v].  A dict is a record.  The wall clock is the         *)
(* variable now, which only moves forward.                                 *)
(***************************************************************************)
EXTENDS Integers, Sequences, FiniteSets, TLC

VARIABLES
    safe_apps_cache,        \* module global _safe_apps_cache (None or a set)
    safe_apps_last_loaded,  \* module global _safe_apps_last_loaded (None or a time)
    now,                    \* datetime.now(), in seconds
    provider,               \* safeapps/safe_apps.json as it is on disk
    pc,                     \* per caller: position inside load_safe_apps
    frame,                  \* per caller: the locals of load_safe_apps
    ret,                    \* per caller: what its last call returned
    last_good,              \* the set returned by the last successful load
    cache_read_at,          \* when the set now in the cache was read from the file
    perm_in,                \* calculate_permission_score: the permission list
    perm_out,               \* calculate_permission_score: what it returned
    url_in,                 \* analyze_urls: the strings of the APK
    url_out,                \* analyze_urls: what it returned
    result,                 \* analyze_apk: what the last call returned
    run,                    \* analyze_apk: the input and the locals of the last call
    prev_result,            \* analyze_apk: what an earlier call returned
    prev_run,               \* analyze_apk: the input and the locals of that call
    session,                \* app.py: session['last_scan_result'], if set
    history,                \* app.py: the files of scan_history, by name
    request,                \* app.py: the last request handled
    response,               \* app.py: the response to it
    last_result,            \* report_false_positive: its local last_result at return
    fp_written,             \* the false-positive fields written since the last scan
    nreq                    \* the number of requests handled

cacheVars == <<safe_apps_cache, safe_apps_last_loaded>>
envVars == <<now, provider>>
callVars == <<pc, frame, ret, last_good>>
ghostVars == <<cache_read_at>>
loadVars == <<cacheVars, envVars, callVars, ghostVars>>
permVars == <<perm_in, perm_out>>
urlVars == <<url_in, url_out>>
pureVars == <<permVars, urlVars>>
scanVars == <<result, run, prev_result, prev_run>>
appVars == <<session, history, request, response, last_result, fp_written, nreq>>
vars == <<safe_apps_cache, safe_apps_last_loaded, now, provider, pc, frame, ret, last_good,
          cache_read_at, perm_in, perm_out, url_in, url_out,
          result, run, prev_result, prev_run,
          session, history, request, response, last_result, fp_written, nreq>>

-----------------------------------------------------------------------------
(* Bounds of the model.                                                    *)

\* The clock advances in steps of TickStep seconds, up to MaxTime.
TickStep == 100
MaxTime == 500

\* A load, from reading the file to returning, takes at most MaxLoadTime seconds.
MaxLoadTime == 200

\* Callers of load_safe_apps that may run at the same time.
Callers == {1, 2}

-----------------------------------------------------------------------------
(* Strings.                                                                *)

UpperAZ == "ABCDEFGHIJKLMNOPQRSTUVWXYZ"
LowerAZ == "abcdefghijklmnopqrstuvwxyz"
Digits == "0123456789"

CharAt(s, i) == SubSeq(s, i, i)

\* c occurs in the string s.
IsCharOf(c, s) == \E i \in 1..Len(s) : CharAt(s, i) = c

IndexIn(c, s) == CHOOSE i \in 1..Len(s) : CharAt(s, i) = c

\* str.lower() on one character.
LowerChar(c) == IF IsCharOf(c, UpperAZ) THEN CharAt(LowerAZ, IndexIn(c, UpperAZ)) ELSE c

RECURSIVE LowerFrom(_, _)
LowerFrom(s, i) == IF i > Len(s) THEN "" ELSE LowerChar(CharAt(s, i)) \o LowerFrom(s, i + 1)

\* str.lower()
Lower(s) == LowerFrom(s, 1)

IsSpace(c) == c \in {" ", "\t", "\n", "\r"}

RECURSIVE FirstNonSpace(_, _)
FirstNonSpace(s, i) ==
    IF i > Len(s) \/ ~IsSpace(CharAt(s, i)) THEN i ELSE FirstNonSpace(s, i + 1)

RECURSIVE LastNonSpace(_, _)
LastNonSpace(s, i) ==
    IF i < 1 \/ ~IsSpace(CharAt(s, i)) THEN i ELSE LastNonSpace(s, i - 1)

\* str.strip()
Strip(s) == SubSeq(s, FirstNonSpace(s, 1), LastNonSpace(s, Len(s)))

\* package.lower().strip()
Normalize(s) == Strip(Lower(s))

\* s[i:i+len(t)] == t
MatchesAt(s, t, i) == i + Len(t) - 1 <= Len(s) /\ SubSeq(s, i, i + Len(t) - 1) = t

\* t in s
Contains(s, t) == \E i \in 1..(Len(s) + 1) : MatchesAt(s, t, i)

-----------------------------------------------------------------------------
(* Optional values.                                                        *)

NoneSet == [none |-> TRUE, v |-> {}]
SomeSet(s) == [none |-> FALSE, v |-> s]
NoneTime == [none |-> TRUE, v |-> 0]
SomeTime(t) == [none |-> FALSE, v |-> t]

-----------------------------------------------------------------------------
(* The allowlist file.  json.load gives a list of records, each either a   *)
(* dict whose "package" is a str, a dict without "package" (the key is     *)
(* absent, null or ""), a dict whose "package" is a number, or not a dict. *)

Pkg(p) == [type |-> "str_pkg", package |-> p]
NoPkg == [type |-> "no_pkg", package |-> ""]
NumPkg == [type |-> "num_pkg", package |-> ""]
NotDict == [type |-> "not_dict", package |-> ""]

ContentA == <<Pkg("Com.Bank "), Pkg("com.pay")>>
ContentB == <<Pkg("com.pay"), NoPkg>>
ContentEmpty == <<>>
ContentBadTail == <<Pkg("com.bank"), NotDict>>
ContentBadNum == <<NumPkg>>

Contents == {ContentA, ContentB, ContentEmpty, ContentBadTail, ContentBadNum}

FileMissing == [state |-> "missing", json |-> <<>>]
FileMalformed == [state |-> "malformed", json |-> <<>>]
FileWith(c) == [state |-> "ok", json |-> c]

ProviderStates == {FileMissing, FileMalformed} \cup {FileWith(c) : c \in Contents}

-----------------------------------------------------------------------------
(* load_safe_apps, statement by statement.                                 *)

TTL == 300

\* Lines 83-85: the cache is still valid.
CacheValid(cache, loaded, t) ==
    /\ ~cache.none
    /\ ~loaded.none
    /\ t - loaded.v < TTL

\* Line 96: if package
Truthy(rec) == rec.type = "num_pkg" \/ (rec.type = "str_pkg" /\ rec.package # "")

\* Lines 95-97 raise: app.get on a value that is no dict, .lower() on a number.
Raises(rec) == rec.type = "not_dict" \/ rec.type = "num_pkg"

NoFrame == [json |-> <<>>, idx |-> 0, safe_apps |-> {}, read_at |-> 0]
NoRet == [kind |-> "none", value |-> {}, read_at |-> 0, at |-> 0, stamp |-> NoneTime, src |-> <<>>]

\* Lines 104 and 107: return set()
FailResultCached(cache) == cache.v
FailResult(cache) == {}

\* load_safe_apps is entered.
Call(t) ==
    /\ pc[t] = "idle"
    /\ pc' = [pc EXCEPT ![t] = "check"]
    /\ ret' = [ret EXCEPT ![t] = NoRet]
    /\ UNCHANGED <<cacheVars, envVars, frame, last_good, ghostVars, pureVars, scanVars, appVars>>

\* Lines 83-86: return the cached set while it is valid.
Check(t) ==
    /\ pc[t] = "check"
    /\ IF CacheValid(safe_apps_cache, safe_apps_last_loaded, now)
       THEN /\ pc' = [pc EXCEPT ![t] = "idle"]
            /\ ret' = [ret EXCEPT ![t] =
                         [kind |-> "cached", value |-> safe_apps_cache.v,
                          read_at |-> cache_read_at, at |-> now,
                          stamp |-> safe_apps_last_loaded, src |-> <<>>]]
       ELSE /\ pc' = [pc EXCEPT ![t] = "open"]
            /\ UNCHANGED ret
    /\ UNCHANGED <<cacheVars, envVars, frame, last_good, ghostVars, pureVars, scanVars, appVars>>

\* Lines 102-107: the file is missing, or an exception was caught.
Fail(t) ==
    /\ pc' = [pc EXCEPT ![t] = "idle"]
    /\ frame' = [frame EXCEPT ![t] = NoFrame]
    /\ ret' = [ret EXCEPT ![t] =
                 [kind |-> "failed", value |-> FailResult(safe_apps_cache),
                  read_at |-> 0, at |-> now, stamp |-> safe_apps_last_loaded,
                  src |-> <<>>]]
    /\ UNCHANGED <<cacheVars, envVars, last_good, ghostVars, pureVars, scanVars, appVars>>

\* Lines 89-92: the file is opened and parsed, safe_apps = set().
Open(t) ==
    /\ pc[t] = "open"
    /\ IF provider.state = "ok"
       THEN /\ pc' = [pc EXCEPT ![t] = "loop"]
            /\ frame' = [frame EXCEPT ![t] =
                           [json |-> provider.json, idx |-> 1,
                            safe_apps |-> {}, read_at |-> now]]
            /\ UNCHANGED <<cacheVars, envVars, ret, last_good, ghostVars, pureVars, scanVars, appVars>>
       ELSE Fail(t)

\* Lines 94-97: one iteration of the loop over the records.
LoopAddInPlace(t) ==
    /\ pc[t] = "loop"
    /\ frame[t].idx <= Len(frame[t].json)
    /\ LET rec == frame[t].json[frame[t].idx] IN
       IF Raises(rec)
       THEN Fail(t)
       ELSE LET added == IF Truthy(rec)
                         THEN frame[t].safe_apps \cup {Normalize(rec.package)}
                         ELSE frame[t].safe_apps
            IN /\ frame' = [frame EXCEPT ![t].idx = @ + 1, ![t].safe_apps = added]
               /\ safe_apps_cache' = SomeSet(added)
               /\ UNCHANGED <<safe_apps_last_loaded, envVars, pc, ret, last_good, ghostVars, pureVars, scanVars, appVars>>

LoopAdd(t) ==
    /\ pc[t] = "loop"
    /\ frame[t].idx <= Len(frame[t].json)
    /\ LET rec == frame[t].json[frame[t].idx] IN
       IF Raises(rec)
       THEN Fail(t)
       ELSE /\ frame' = [frame EXCEPT
                           ![t].idx = @ + 1,
                           ![t].safe_apps =
                               IF Truthy(rec)
                               THEN @ \cup {Normalize(rec.package)}
                               ELSE @]
            /\ UNCHANGED <<cacheVars, envVars, pc, ret, last_good, ghostVars, pureVars, scanVars, appVars>>

\* Line 99: _safe_apps_cache = safe_apps, once the loop is over.
Publish(t) ==
    /\ pc[t] = "loop"
    /\ frame[t].idx > Len(frame[t].json)
    /\ safe_apps_cache' = SomeSet(frame[t].safe_apps)
    /\ cache_read_at' = frame[t].read_at
    /\ pc' = [pc EXCEPT ![t] = "stamp"]
    /\ UNCHANGED <<safe_apps_last_loaded, envVars, frame, ret, last_good, pureVars, scanVars, appVars>>

\* Lines 100-101: _safe_apps_last_loaded = datetime.now(); return safe_apps
Stamp(t) ==
    /\ pc[t] = "stamp"
    /\ safe_apps_last_loaded' = SomeTime(now)
    /\ pc' = [pc EXCEPT ![t] = "idle"]
    /\ ret' = [ret EXCEPT ![t] =
                 [kind |-> "loaded", value |-> frame[t].safe_apps,
                  read_at |-> frame[t].read_at, at |-> now,
                  stamp |-> SomeTime(now), src |-> frame[t].json]]
    /\ last_good' = SomeSet(frame[t].safe_apps)
    /\ frame' = [frame EXCEPT ![t] = NoFrame]
    /\ UNCHANGED <<safe_apps_cache, envVars, ghostVars, pureVars, scanVars, appVars>>

RECURSIVE BuildSet(_, _, _)
\* Lines 92-97 run to their end: the set built, or the loop raised.
BuildSet(json, i, safe_apps) ==
    IF i > Len(json) THEN [ok |-> TRUE, set |-> safe_apps]
    ELSE IF Raises(json[i]) THEN [ok |-> FALSE, set |-> safe_apps]
    ELSE BuildSet(json, i + 1,
                  IF Truthy(json[i])
                  THEN safe_apps \cup {Normalize(json[i].package)}
                  ELSE safe_apps)

\* load_safe_apps from call to return, when no other caller runs meanwhile:
\* what it returns and what it leaves in the two globals.
\* Lines 99-107: the set b was built and is stored, or the load failed.
LoadOutcome(cache, loaded, t, b) ==
    IF b.ok
    THEN [value |-> b.set, cache |-> SomeSet(b.set),
          loaded |-> SomeTime(t), read |-> TRUE]
    ELSE [value |-> FailResult(cache), cache |-> cache,
          loaded |-> loaded, read |-> FALSE]

load_safe_apps(cache, loaded, t, prov) ==
    IF CacheValid(cache, loaded, t)
    THEN [value |-> cache.v, cache |-> cache, loaded |-> loaded, read |-> FALSE]
    ELSE LoadOutcome(cache, loaded, t,
                     IF prov.state = "ok"
                     THEN BuildSet(prov.json, 1, {})
                     ELSE [ok |-> FALSE, set |-> {}])

LoadStep(t) ==
    \/ Call(t)
    \/ Check(t)
    \/ Open(t)
    \/ LoopAdd(t)
    \/ Publish(t)
    \/ Stamp(t)

\* A caller is between reading the file and returning what it read.
Loading(t) == pc[t] \in {"loop", "stamp"}

\* Time passes: step seconds.
TickBy(step) ==
    /\ now + step <= MaxTime
    /\ \A t \in Callers : Loading(t) => now + step - frame[t].read_at <= MaxLoadTime
    /\ now' = now + step
    /\ UNCHANGED <<cacheVars, provider, callVars, ghostVars, pureVars, scanVars, appVars>>

\* The allowlist file is rewritten, removed or corrupted from outside.
ProviderChange(S) ==
    /\ \E p \in S : p # provider /\ provider' = p
    /\ UNCHANGED <<cacheVars, now, callVars, ghostVars, pureVars, scanVars, appVars>>

InitCache ==
    /\ safe_apps_cache = NoneSet
    /\ safe_apps_last_loaded = NoneTime
    /\ now = 0
    /\ provider \in ProviderStates
    /\ pc = [t \in Callers |-> "idle"]
    /\ frame = [t \in Callers |-> NoFrame]
    /\ ret = [t \in Callers |-> NoRet]
    /\ last_good = NoneSet
    /\ cache_read_at = 0

NoPermOut == [done |-> FALSE, score |-> 0, high |-> <<>>]
NoUrlOut == [done |-> FALSE, findings |-> <<>>]

InitPure ==
    /\ perm_in = <<>>
    /\ perm_out = NoPermOut
    /\ url_in = <<>>
    /\ url_out = NoUrlOut

\* No call of analyze_apk yet.
NoResult == [none |-> TRUE]
NoRun == [none |-> TRUE]

InitScan ==
    /\ result = NoResult
    /\ run = NoRun
    /\ prev_result = NoResult
    /\ prev_run = NoRun

\* 'last_scan_result' is not in the session.
NoSession == [none |-> TRUE]
NoRequest == [kind |-> "none"]
NoResponse == [status |-> 0]

\* No request yet: an empty session and an empty scan_history.
InitApp ==
    /\ session = NoSession
    /\ history = <<>>
    /\ request = NoRequest
    /\ response = NoResponse
    /\ last_result = NoResult
    /\ fp_written = <<>>
    /\ nreq = 0

Init == InitCache /\ InitPure /\ InitScan /\ InitApp

\* One caller at a time: the calls of load_safe_apps follow one another.
NextTTL == LoadStep(1) \/ TickBy(TickStep) \/ ProviderChange(ProviderStates)

SpecTTL == Init /\ [][NextTTL]_vars

\* Callers in several threads.
ConcurrentProviderStates ==
    {FileMissing, FileWith(ContentA), FileWith(ContentB), FileWith(ContentBadTail)}

InitConcurrent == Init /\ provider \in ConcurrentProviderStates

NextCache ==
    \/ \E t \in Callers : LoadStep(t)
    \/ TickBy(TickStep)
    \/ ProviderChange(ConcurrentProviderStates)

SpecCache == InitConcurrent /\ [][NextCache]_vars

-----------------------------------------------------------------------------
(* The allowlist cache: claims.                                            *)

\* The set load_safe_apps builds from a file content that parses.
NormalizedSet(c) ==
    {Normalize(c[i].package) :
        i \in {j \in 1..Len(c) : c[j].type = "str_pkg" /\ c[j].package # ""}}

Parses(c) == \A i \in 1..Len(c) : c[i].type \in {"str_pkg", "no_pkg"}

CompleteSets == {NormalizedSet(c) : c \in {d \in Contents : Parses(d)}}

C4_NoPartialSet ==
    /\ safe_apps_cache.none \/ safe_apps_cache.v \in CompleteSets
    /\ \A t \in Callers :
        /\ ret[t].kind = "loaded" =>
               Parses(ret[t].src) /\ ret[t].value = NormalizedSet(ret[t].src)
        /\ ret[t].kind = "cached" => ret[t].value \in CompleteSets
        /\ ret[t].kind = "failed" => ret[t].value = {}

\* One caller is inside the loop with a partly filled set while the other
\* has been served from the cache since the first one read the file.
C4_Witness ==
    \E t, u \in Callers :
        /\ t # u
        /\ pc[t] = "loop"
        /\ frame[t].safe_apps # {}
        /\ frame[t].safe_apps # NormalizedSet(frame[t].json)
        /\ ret[u].kind = "cached"
        /\ ret[u].value # {}
        /\ ret[u].at >= frame[t].read_at

\* C5 as stated: a returned set was read from the file no more than 300 seconds
\* before the return, or is the empty set of a failure; and the cached set is
\* returned only when it was loaded less than 300 seconds before.
C5_NeverStale ==
    \A t \in Callers :
        /\ ret[t].kind = "failed" => ret[t].value = {}
        /\ ret[t].kind = "loaded" =>
               ret[t].value = {} \/ ret[t].at - ret[t].read_at <= TTL
        /\ ret[t].kind = "cached" =>
               /\ ~ret[t].stamp.none
               /\ ret[t].at - ret[t].stamp.v < TTL
               /\ ret[t].value = {} \/ ret[t].at - ret[t].read_at <= TTL

-----------------------------------------------------------------------------
(* The permission risk model.                                              *)

PERMISSION_SCORES ==
    ("android.permission.READ_SMS" :> 200) @@
    ("android.permission.SEND_SMS" :> 200) @@
    ("android.permission.RECEIVE_SMS" :> 200) @@
    ("android.permission.CALL_PHONE" :> 150) @@
    ("android.permission.READ_CONTACTS" :> 120) @@
    ("android.permission.WRITE_CONTACTS" :> 120) @@
    ("android.permission.READ_CALL_LOG" :> 150) @@
    ("android.permission.WRITE_CALL_LOG" :> 150) @@
    ("android.permission.PROCESS_OUTGOING_CALLS" :> 150) @@
    ("android.permission.GET_ACCOUNTS" :> 100) @@
    ("android.permission.AUTHENTICATE_ACCOUNTS" :> 100) @@
    ("android.permission.CAMERA" :> 80) @@
    ("android.permission.RECORD_AUDIO" :> 80) @@
    ("android.permission.ACCESS_FINE_LOCATION" :> 70) @@
    ("android.permission.ACCESS_COARSE_LOCATION" :> 70) @@
    ("android.permission.REQUEST_INSTALL_PACKAGES" :> 90) @@
    ("android.permission.SYSTEM_ALERT_WINDOW" :> 100) @@
    ("android.permission.WRITE_SETTINGS" :> 80) @@
    ("android.permission.WRITE_EXTERNAL_STORAGE" :> 50) @@
    ("android.permission.READ_EXTERNAL_STORAGE" :> 50) @@
    ("android.permission.INTERNET" :> 10) @@
    ("android.permission.ACCESS_NETWORK_STATE" :> 5) @@
    ("android.permission.VIBRATE" :> 2) @@
    ("android.permission.WAKE_LOCK" :> 5)

\* PERMISSION_SCORES.get(perm, 0)
PermScore(perm) ==
    IF perm \in DOMAIN PERMISSION_SCORES THEN PERMISSION_SCORES[perm] ELSE 0

\* get_permission_risk
get_permission_risk(permission) ==
    IF PermScore(permission) >= 100 THEN "High Risk"
    ELSE IF PermScore(permission) >= 50 THEN "Medium Risk"
    ELSE "Low Risk"

(***************************************************************************)
(* Lines 130-133 work in IEEE 754 doubles.  The multiplier is the double   *)
(* m(h) = 1 + (h * 0.2), which is not the real number (5 + h) / 5: with    *)
(* e(h) = MultiplierError[h + 1], m(h) = (5 + h) / 5 - e(h) / (5 * 2^52).  *)
(* The product score * m(h) is then rounded to the nearest double and      *)
(* int() drops its fraction.  The real product is a multiple of 1/5, so    *)
(* the rounding can change the integer part only when the real product is  *)
(* an integer N and m(h) lies below (5 + h) / 5: the result is then N - 1  *)
(* when the error of the product, score * e(h) / (5 * 2^52), is more than  *)
(* half the gap between N and the double before it, which is 2^(k - 52)    *)
(* for 2^k < N < 2^(k + 1) and 2^(k - 53) for N = 2^k.                     *)
(***************************************************************************)
MultiplierError == <<0, 1, 2, -2, -1, 0, -4, -8, -2, 4, 0, -4, -8, -2>>

RECURSIVE Pow2Floor(_, _)
\* The largest power of two that is at most n, starting the search at p <= n.
Pow2Floor(n, p) == IF 2 * p <= n THEN Pow2Floor(n, 2 * p) ELSE p

\* int(score * (1 + (h * 0.2)))
\* The product rounds to the double below the integer exact, p being the
\* largest power of two that is at most exact.
RoundsBelow(score, e, exact, p) ==
    IF exact = p THEN 4 * score * e > 5 * p ELSE 2 * score * e > 5 * p

\* int(score * (1 + (h * 0.2)))
FloatMulTrunc(score, h) ==
    LET x == score * (5 + h)
        exact == x \div 5
        e == MultiplierError[h + 1]
    IN IF x % 5 = 0 /\ exact > 0 /\ e > 0
          /\ RoundsBelow(score, e, exact, Pow2Floor(exact, 1))
       THEN exact - 1
       ELSE exact

RECURSIVE PermLoop(_, _, _, _)
\* Lines 123-127: the loop over the permissions.
PermLoop(permissions, i, score, high_risk_perms) ==
    IF i > Len(permissions)
    THEN [score |-> score, high |-> high_risk_perms]
    ELSE LET perm == permissions[i]
             perm_score == PermScore(perm)
         IN PermLoop(permissions, i + 1, score + perm_score,
                     IF perm_score >= 100
                     THEN Append(high_risk_perms, perm)
                     ELSE high_risk_perms)

\* Lines 130-133: the multiplier is applied to what the loop l gave.
ScaleScore(l) ==
    [done |-> TRUE, score |-> FloatMulTrunc(l.score, Len(l.high)), high |-> l.high]

\* calculate_permission_score
calculate_permission_score(permissions) == ScaleScore(PermLoop(permissions, 1, 0, <<>>))

\* The longest permission list given to calculate_permission_score.
MaxPerms == 3

PermPool ==
    {"android.permission.READ_SMS", "android.permission.SEND_SMS",
     "android.permission.READ_CONTACTS", "android.permission.GET_ACCOUNTS",
     "android.permission.CAMERA", "android.permission.WAKE_LOCK",
     "com.example.permission.CUSTOM"}

RECURSIVE SeqsUpTo(_, _)
\* The sequences over S of length at most n.
SeqsUpTo(S, n) ==
    IF n = 0 THEN {<<>>}
    ELSE LET shorter == SeqsUpTo(S, n - 1)
         IN shorter \cup {Append(q, x) : q \in shorter, x \in S}

PermInputs == SeqsUpTo(PermPool, MaxPerms)

InitPerm ==
    /\ InitCache
    /\ InitScan
    /\ InitApp
    /\ provider = FileMissing
    /\ url_in = <<>>
    /\ url_out = NoUrlOut
    /\ perm_in \in PermInputs
    /\ perm_out = NoPermOut

\* calculate_permission_score is called on the list.
ScorePermissions ==
    /\ ~perm_out.done
    /\ perm_out' = calculate_permission_score(perm_in)
    /\ UNCHANGED <<loadVars, perm_in, urlVars, scanVars, appVars>>

\* Another permission list is taken.
NextPermissions ==
    /\ perm_out.done
    /\ perm_in' \in PermInputs
    /\ perm_out' = NoPermOut
    /\ UNCHANGED <<loadVars, urlVars, scanVars, appVars>>

NextPerm == ScorePermissions \/ NextPermissions

SpecPerm == InitPerm /\ [][NextPerm]_vars

RECURSIVE SumScores(_, _)
\* The sum of the table scores of permissions[i..].
SumScores(permissions, i) ==
    IF i > Len(permissions) THEN 0
    ELSE PermScore(permissions[i]) + SumScores(permissions, i + 1)

IsHighRisk(perm) == PermScore(perm) >= 100

\* C9 as stated: the score is the truncation of raw_sum * (1 + 0.2 * h), it is
\* not negative, the high-risk list holds the permissions scoring at least 100
\* in input order, and READ_SMS with SEND_SMS scores 560.
C9_ScoreIsTruncatedProduct ==
    perm_out.done =>
        LET raw_sum == SumScores(perm_in, 1)
            highs == SelectSeq(perm_in, IsHighRisk)
            h == Len(highs)
        IN /\ perm_out.score >= 0
           /\ perm_out.score = (raw_sum * (10 + 2 * h)) \div 10
           /\ perm_out.high = highs
           /\ perm_in = <<"android.permission.READ_SMS", "android.permission.SEND_SMS">>
                  => perm_out.score = 560

-----------------------------------------------------------------------------
(* The domain reputation scanner.                                          *)

KNOWN_GOOD_DOMAINS ==
    {"google.com", "googleapis.com", "gstatic.com", "firebase.com",
     "facebook.com", "fbcdn.net", "apple.com", "icloud.com",
     "microsoft.com", "azure.com", "amazon.com", "aws.com",
     "twitter.com", "github.com", "android.com", "googletagmanager.com"}

KNOWN_BAD_DOMAINS == {"malicious-domain.com", "evil-server.net", "data-stealer.org"}

\* The character class [a-zA-Z0-9.-]
IsHostChar(c) ==
    \/ IsCharOf(c, LowerAZ)
    \/ IsCharOf(c, UpperAZ)
    \/ IsCharOf(c, Digits)
    \/ c \in {".", "-"}

RECURSIVE HostEnd(_, _)
\* The index after the longest run of host characters of text that starts at i.
HostEnd(text, i) ==
    IF i <= Len(text) /\ IsHostChar(CharAt(text, i)) THEN HostEnd(text, i + 1) ELSE i

\* Where the host starts when https?:// matches at i, else 0.
SchemeEnd(text, i) ==
    IF MatchesAt(text, "http://", i) THEN i + 7
    ELSE IF MatchesAt(text, "https://", i) THEN i + 8
    ELSE 0

\* url_pattern matches at i.  The host is the longest run of host characters:
\* no shorter run can be followed by / or ?, which are not host characters.
HostMatch(text, i, b, e) ==
    IF e > b /\ e <= Len(text) /\ CharAt(text, e) \in {"/", "?"}
    THEN [found |-> TRUE, domain |-> SubSeq(text, b, e - 1), next |-> e + 1]
    ELSE [found |-> FALSE, domain |-> "", next |-> i + 1]

SchemeMatch(text, i, b) ==
    IF b = 0
    THEN [found |-> FALSE, domain |-> "", next |-> i + 1]
    ELSE HostMatch(text, i, b, HostEnd(text, b))

UrlMatchAt(text, i) == SchemeMatch(text, i, SchemeEnd(text, i))

RECURSIVE FindAllUrls(_, _)
RECURSIVE FindNextUrls(_, _, _)
\* Line 148: url_pattern.findall(text), the matches left to right, not overlapping.
FindAllUrls(text, i) ==
    IF i > Len(text) THEN <<>> ELSE FindNextUrls(text, i, UrlMatchAt(text, i))

\* The matches from i on, m being the outcome of the match at i.
FindNextUrls(text, i, m) ==
    IF m.found
    THEN <<m.domain>> \o FindAllUrls(text, m.next)
    ELSE FindAllUrls(text, i + 1)

SuspiciousParts == <<"api", "cloud", "server">>

\* Line 163: any(part in domain for part in ["api", "cloud", "server"])
HasSuspiciousPart(domain) ==
    \E k \in 1..Len(SuspiciousParts) : Contains(domain, SuspiciousParts[k])

\* Lines 151-168 for one domain: the findings it adds.
ClassifyDomainNoGoodList(domain) ==
    IF Len(domain) < 5 THEN <<>>
    ELSE IF domain \in KNOWN_BAD_DOMAINS
    THEN <<[url |-> domain, reason |-> "Known malicious domain", score |-> 200]>>
    ELSE IF HasSuspiciousPart(domain)
    THEN <<[url |-> domain, reason |-> "Suspicious external domain", score |-> 50]>>
    ELSE <<>>

ClassifyDomain(domain) ==
    IF Len(domain) < 5 THEN <<>>
    ELSE IF domain \in KNOWN_BAD_DOMAINS
    THEN <<[url |-> domain, reason |-> "Known malicious domain", score |-> 200]>>
    ELSE IF domain \notin KNOWN_GOOD_DOMAINS
    THEN IF HasSuspiciousPart(domain)
         THEN <<[url |-> domain, reason |-> "Suspicious external domain", score |-> 50]>>
         ELSE <<>>
    ELSE <<>>

RECURSIVE ClassifyAll(_, _)
\* Lines 149-168: the loop over the domains of one string.
ClassifyAll(urls, i) ==
    IF i > Len(urls) THEN <<>>
    ELSE ClassifyDomain(urls[i]) \o ClassifyAll(urls, i + 1)

RECURSIVE UrlLoop(_, _)
\* Lines 141-170: the loop over the strings.
UrlLoop(strings, i) ==
    IF i > Len(strings) THEN <<>>
    ELSE ClassifyAll(FindAllUrls(strings[i], 1), 1) \o UrlLoop(strings, i + 1)

\* analyze_urls, given apk.get_strings()
analyze_urls(strings) == UrlLoop(strings, 1)

\* The longest string pool given to analyze_urls.
MaxStrings == 2

UrlSamples ==
    {"http://googleapis.com/x",
     "https://icloud.com?id=1",
     "http://evil-server.net/",
     "http://api.example-server.com/data",
     "http://api/",
     "see https://example.com/ and http://cloud.example.org/x",
     "http://apis.google.com",
     "ftp://server.example.com/",
     "https://API.Server.io/"}

UrlInputs == SeqsUpTo(UrlSamples, MaxStrings)

InitUrl ==
    /\ InitCache
    /\ InitScan
    /\ InitApp
    /\ provider = FileMissing
    /\ perm_in = <<>>
    /\ perm_out = NoPermOut
    /\ url_in \in UrlInputs
    /\ url_out = NoUrlOut

\* analyze_urls is called on the strings.
ScanUrls ==
    /\ ~url_out.done
    /\ url_out' = [done |-> TRUE, findings |-> analyze_urls(url_in)]
    /\ UNCHANGED <<loadVars, permVars, url_in, scanVars, appVars>>

\* Another string pool is taken.
NextUrls ==
    /\ url_out.done
    /\ url_in' \in UrlInputs
    /\ url_out' = NoUrlOut
    /\ UNCHANGED <<loadVars, permVars, scanVars, appVars>>

NextUrl == ScanUrls \/ NextUrls

SpecUrl == InitUrl /\ [][NextUrl]_vars

\* C10: every finding is a known-bad domain, 200, "Known malicious domain", or
\* a domain outside the known-good set that contains "api", "cloud" or
\* "server", 50, "Suspicious external domain"; no finding is for a known-good
\* domain or for a domain of fewer than 5 characters.
C10_NeverFlagsKnownGood ==
    url_out.done =>
        \A k \in 1..Len(url_out.findings) :
            LET f == url_out.findings[k] IN
            /\ \/ /\ f.url \in KNOWN_BAD_DOMAINS
                  /\ f.reason = "Known malicious domain"
                  /\ f.score = 200
               \/ /\ f.url \notin KNOWN_GOOD_DOMAINS
                  /\ \/ Contains(f.url, "api")
                     \/ Contains(f.url, "cloud")
                     \/ Contains(f.url, "server")
                  /\ f.reason = "Suspicious external domain"
                  /\ f.score = 50
            /\ Len(f.url) >= 5
            /\ f.url \notin KNOWN_GOOD_DOMAINS

\* The strings hold a known-good domain that contains "api", a domain of 3
\* characters and the suspicious domain of the scenario: one finding.
C10_Witness ==
    /\ url_out.done
    /\ url_in = <<"http://googleapis.com/x", "http://api.example-server.com/data">>
    /\ FindAllUrls("http://googleapis.com/x", 1) = <<"googleapis.com">>
    /\ url_out.findings =
           <<[url |-> "api.example-server.com",
              reason |-> "Suspicious external domain", score |-> 50]>>

-----------------------------------------------------------------------------
(* The pattern signal scanner.  Each entry of MALICIOUS_PATTERNS is a      *)
(* literal text, in two cases followed by \b; searched with re.IGNORECASE, *)
(* it is found where the lower-cased text holds the lower-cased literal.   *)

MALICIOUS_PATTERNS ==
    <<[pattern |-> "exec\\(", literal |-> "exec(", word_end |-> FALSE, score |-> 200],
      [pattern |-> "runtime\\.exec", literal |-> "runtime.exec", word_end |-> FALSE, score |-> 200],
      [pattern |-> "getRuntime\\(\\)\\.exec", literal |-> "getruntime().exec", word_end |-> FALSE, score |-> 200],
      [pattern |-> "su\\b", literal |-> "su", word_end |-> TRUE, score |-> 150],
      [pattern |-> "superuser", literal |-> "superuser", word_end |-> FALSE, score |-> 150],
      [pattern |-> "root\\b", literal |-> "root", word_end |-> TRUE, score |-> 150],
      [pattern |-> "cryptography", literal |-> "cryptography", word_end |-> FALSE, score |-> 50],
      [pattern |-> "encrypt", literal |-> "encrypt", word_end |-> FALSE, score |-> 50],
      [pattern |-> "decrypt", literal |-> "decrypt", word_end |-> FALSE, score |-> 50],
      [pattern |-> "base64", literal |-> "base64", word_end |-> FALSE, score |-> 30],
      [pattern |-> "getDeviceId", literal |-> "getdeviceid", word_end |-> FALSE, score |-> 100],
      [pattern |-> "getSubscriberId", literal |-> "getsubscriberid", word_end |-> FALSE, score |-> 100],
      [pattern |-> "getSimSerialNumber", literal |-> "getsimserialnumber", word_end |-> FALSE, score |-> 100],
      [pattern |-> "getLine1Number", literal |-> "getline1number", word_end |-> FALSE, score |-> 100]>>

\* \w
IsWordChar(c) ==
    IsCharOf(c, LowerAZ) \/ IsCharOf(c, UpperAZ) \/ IsCharOf(c, Digits) \/ c = "_"

\* \b after a literal that ends at index e of text: the literal ends in a word
\* character, so the next character is none or is no word character.
WordEndsAt(text, e) == e = Len(text) \/ ~IsWordChar(CharAt(text, e + 1))

\* Line 193: re.search(pattern, text, re.IGNORECASE), low being text.lower()
PatternFound(p, low) ==
    \E i \in 1..Len(low) :
        /\ MatchesAt(low, p.literal, i)
        /\ p.word_end => WordEndsAt(low, i + Len(p.literal) - 1)

RECURSIVE PatternLoop(_, _)
\* Lines 192-198: the loop over the patterns, for one string.
PatternLoop(low, k) ==
    IF k > Len(MALICIOUS_PATTERNS) THEN <<>>
    ELSE (IF PatternFound(MALICIOUS_PATTERNS[k], low)
          THEN <<[pattern |-> MALICIOUS_PATTERNS[k].pattern,
                  score |-> MALICIOUS_PATTERNS[k].score,
                  location |-> "APK strings"]>>
          ELSE <<>>) \o PatternLoop(low, k + 1)

RECURSIVE StringLoop(_, _)
\* Lines 185-200: the loop over the strings.
StringLoop(strings, i) ==
    IF i > Len(strings) THEN <<>>
    ELSE PatternLoop(Lower(strings[i]), 1) \o StringLoop(strings, i + 1)

\* analyze_code_patterns, given apk.get_strings() of the same file
analyze_code_patterns(strings) == StringLoop(strings, 1)

-----------------------------------------------------------------------------
(* The certificate risk evaluator.                                         *)

\* calculate_certificate_risk; the certificates are present, absent, or
\* get_certificates raises.
calculate_certificate_risk(cert) ==
    IF cert = "present" THEN [score |-> 0, reason |-> "Certificate found (basic check)"]
    ELSE IF cert = "absent" THEN [score |-> 100, reason |-> "No certificate found"]
    ELSE [score |-> 75, reason |-> "Certificate analysis failed: " \o cert]

-----------------------------------------------------------------------------
(* The risk aggregator, analyze_apk.                                       *)
(*                                                                         *)
(* After the discount the total is a double, total * 0.3.  It is kept here *)
(* in tenths, 3 * total: for every total up to 200,000 the double and the  *)
(* exact tenths have the same integer part and fall on the same side of    *)
(* 50, 200 and 500.                                                        *)

\* x or "Unknown"
OrUnknown(x) == IF x = "" THEN "Unknown" ELSE x

\* The SHA-256 digest of the file, an opaque value fixed by its bytes.
generate_apk_hash(bytes) == <<"sha256", bytes>>

RECURSIVE SumFindings(_, _)
\* sum(f['score'] for f in findings)
SumFindings(findings, i) ==
    IF i > Len(findings) THEN 0 ELSE findings[i].score + SumFindings(findings, i + 1)

Max(a, b) == IF a >= b THEN a ELSE b

\* Line 275: max(0, total_score * 0.3), in tenths.
SafeAppDiscountNone(total_score) == Max(0, 10 * total_score)
SafeAppDiscountHalf(total_score) == Max(0, 5 * total_score)
SafeAppDiscount(total_score) == Max(0, 3 * total_score)

\* Lines 281-288, on the total in tenths.
RiskLevelSwapped(total10) ==
    IF total10 > 5000 THEN "Potentially Risky"
    ELSE IF total10 > 2000 THEN "Dangerous"
    ELSE IF total10 > 500 THEN "Moderate Risk"
    ELSE "Likely Safe"
RiskLevel(total10) ==
    IF total10 > 5000 THEN "Dangerous"
    ELSE IF total10 > 2000 THEN "Potentially Risky"
    ELSE IF total10 > 500 THEN "Moderate Risk"
    ELSE "Likely Safe"

ErrorResult(message) == [error |-> message]

\* The stages of one analysis.
AllStages == {"hash", "allowlist", "permissions", "urls", "patterns", "certificate"}

\* What a call that returned early leaves behind.
EarlyExit(f, cache, loaded, message) ==
    [result |-> ErrorResult(message),
     run |-> [input |-> f, stages |-> {}, allow |-> FALSE, pre |-> 0, post10 |-> 0],
     cache |-> cache, loaded |-> loaded, read |-> FALSE]

\* Lines 290-313: the report.
Report(f, package_name, t, safe, perm, suspicious_urls, code_patterns, cert, is_known_safe_app, url_score, code_score, total_score, total10) ==
    [result |->
        [app_name |-> OrUnknown(f.app_name),
         package |-> package_name,
         version |-> OrUnknown(f.version_name) \o " (" \o OrUnknown(f.version_code) \o ")",
         apk_hash |-> generate_apk_hash(f.bytes),
         permissions |-> [i \in 1..Len(f.permissions) |->
                             [name |-> f.permissions[i],
                              risk |-> get_permission_risk(f.permissions[i])]],
         permission_score |-> perm.score,
         url_score |-> url_score,
         code_analysis_score |-> code_score,
         certificate_score |-> cert.score,
         certificate_notes |-> cert.reason,
         total_score |-> total10 \div 10,
         overall_risk |-> RiskLevel(total10),
         risk_note |-> IF is_known_safe_app THEN "Known safe app (score reduced)"
                       ELSE "Unknown app",
         high_risk_permissions |-> perm.high,
         suspicious_urls |-> suspicious_urls,
         suspicious_code_patterns |-> code_patterns,
         is_known_safe_app |-> is_known_safe_app,
         analysis_timestamp |-> t,
         false_positive_reported |-> FALSE],
     run |-> [input |-> f, stages |-> AllStages, allow |-> is_known_safe_app,
              pre |-> total_score, post10 |-> total10],
     cache |-> safe.cache, loaded |-> safe.loaded, read |-> safe.read]

\* Lines 271-278: the total and the discount.
Discounted(f, package_name, t, safe, perm, suspicious_urls, code_patterns, cert, is_known_safe_app, url_score, code_score, total_score) ==
    Report(f, package_name, t, safe, perm, suspicious_urls, code_patterns, cert,
           is_known_safe_app, url_score, code_score, total_score,
           IF is_known_safe_app THEN SafeAppDiscount(total_score) ELSE 10 * total_score)

\* Lines 257-271: the membership test and the sums.
Scored(f, package_name, t, safe, perm, suspicious_urls, code_patterns, cert, is_known_safe_app, url_score, code_score) ==
    Discounted(f, package_name, t, safe, perm, suspicious_urls, code_patterns, cert,
               is_known_safe_app, url_score, code_score,
               perm.score + url_score + code_score + cert.score)

Looked(f, package_name, t, safe, perm, suspicious_urls, code_patterns, cert) ==
    Scored(f, package_name, t, safe, perm, suspicious_urls, code_patterns, cert,
           Normalize(package_name) \in safe.value,
           SumFindings(suspicious_urls, 1),
           SumFindings(code_patterns, 1))

\* Lines 253-313: the analysis of a package whose name is known.
Analysis(f, package_name, cache, loaded, t, prov) ==
    Looked(f, package_name, t,
           load_safe_apps(cache, loaded, t, prov),
           calculate_permission_score(f.permissions),
           analyze_urls(f.strings),
           analyze_code_patterns(f.strings),
           calculate_certificate_risk(f.cert))

\* The name check of line 249 made after the stages of lines 253-258.
LateNameError(a) ==
    [a EXCEPT !.result = ErrorResult("Could not extract package name from APK"),
              !.run.stages = {"hash", "allowlist"}]

\* analyze_apk with the name check of line 249 after the allowlist lookup.
analyze_apk_late_check(f, cache, loaded, t, prov) ==
    IF ~f.exists THEN EarlyExit(f, cache, loaded, "APK file not found: " \o f.path)
    ELSE IF ~f.parses THEN EarlyExit(f, cache, loaded, "not a valid APK")
    ELSE IF OrUnknown(f.package) = "Unknown"
    THEN LateNameError(Analysis(f, "Unknown", cache, loaded, t, prov))
    ELSE Analysis(f, OrUnknown(f.package), cache, loaded, t, prov)

\* analyze_apk: the result, the locals, and what is left in the two globals.
analyze_apk(f, cache, loaded, t, prov) ==
    IF ~f.exists THEN EarlyExit(f, cache, loaded, "APK file not found: " \o f.path)
    ELSE IF ~f.parses THEN EarlyExit(f, cache, loaded, "not a valid APK")
    ELSE IF OrUnknown(f.package) = "Unknown"
    THEN EarlyExit(f, cache, loaded, "Could not extract package name from APK")
    ELSE Analysis(f, OrUnknown(f.package), cache, loaded, t, prov)

-----------------------------------------------------------------------------
(* analyze_apk called on one package after another.                        *)

\* What APK(apk_path) and the file system give for one package file.
Facts(package, permissions, strings, cert) ==
    [exists |-> TRUE, parses |-> TRUE, path |-> "uploads/app.apk",
     app_name |-> "Bank", package |-> package,
     version_name |-> "1.0", version_code |-> "",
     permissions |-> permissions, strings |-> strings, cert |-> cert,
     bytes |-> <<package, permissions, strings, cert>>]

LowPerms ==
    <<"android.permission.INTERNET", "android.permission.VIBRATE",
      "android.permission.WAKE_LOCK">>
SmsPerms == <<"android.permission.READ_SMS", "android.permission.SEND_SMS">>
ContactPerms ==
    <<"android.permission.READ_SMS", "android.permission.READ_CONTACTS",
      "android.permission.WAKE_LOCK">>

\* Strings matching exec\(, runtime\.exec, su\b and encrypt.
ExecStrings == <<"Runtime.exec(cmd)", "su -c id", "encrypt">>

MissingFile == [Facts("com.bank", <<>>, <<>>, "present") EXCEPT !.exists = FALSE]
BrokenFile == [Facts("com.bank", <<>>, <<>>, "present") EXCEPT !.parses = FALSE]
NamelessFile == Facts("", SmsPerms, <<"su -c id">>, "absent")

ScanFacts ==
    {Facts(p, c[1], c[2], "present") :
        p \in {"Com.Bank", "org.unknown"},
        c \in {<<<<>>, <<>>>>, <<LowPerms, <<"su -c id">>>>, <<<<>>, <<"encrypt">>>>}}
    \cup {Facts("org.unknown", SmsPerms, <<>>, "absent"),
          Facts("Com.Bank", ContactPerms,
                <<"http://api.example-server.com/data", "Runtime.exec(cmd)">>,
                "malformed signing block"),
          Facts("Com.Bank", <<>>, ExecStrings, "present"),
          MissingFile, BrokenFile, NamelessFile}

\* analyze_apk has returned a: what the call leaves behind.
Analyzed(a) ==
    /\ result' = a.result
    /\ run' = a.run
    /\ prev_result' = result
    /\ prev_run' = run
    /\ safe_apps_cache' = a.cache
    /\ safe_apps_last_loaded' = a.loaded
    /\ cache_read_at' = IF a.read THEN now ELSE cache_read_at
    /\ last_good' = IF a.read THEN a.cache ELSE last_good
    /\ UNCHANGED <<envVars, pc, frame, ret, pureVars>>

\* analyze_apk(apk_path) is called; the file at apk_path is f.
Analyze(f) ==
    /\ \E a \in {analyze_apk(f, safe_apps_cache, safe_apps_last_loaded, now, provider)} :
          Analyzed(a)
    /\ UNCHANGED appVars

ScanProviderStates == {FileMissing, FileWith(ContentA)}

InitAnalyze == Init /\ provider \in ScanProviderStates

NextAnalyze ==
    \/ \E f \in ScanFacts : Analyze(f)
    \/ TickBy(TTL)
    \/ ProviderChange(ScanProviderStates)

SpecScan == InitAnalyze /\ [][NextAnalyze]_vars

ReportFields ==
    {"app_name", "package", "version", "apk_hash", "permissions",
     "permission_score", "url_score", "code_analysis_score", "certificate_score",
     "certificate_notes", "total_score", "overall_risk", "risk_note",
     "high_risk_permissions", "suspicious_urls", "suspicious_code_patterns",
     "is_known_safe_app", "analysis_timestamp", "false_positive_reported"}

IsReport(r) == "total_score" \in DOMAIN r
IsError(r) == "error" \in DOMAIN r

TierRank(level) ==
    CASE level = "Likely Safe" -> 0
      [] level = "Moderate Risk" -> 1
      [] level = "Potentially Risky" -> 2
      [] level = "Dangerous" -> 3

\* C2 as stated: of two reports, equal total_score gives equal overall_risk,
\* and the report with the smaller total_score never has the higher tier.
C2_TierOfReportedScore ==
    (IsReport(result) /\ IsReport(prev_result)) =>
        /\ result.total_score = prev_result.total_score
               => result.overall_risk = prev_result.overall_risk
        /\ result.total_score < prev_result.total_score
               => TierRank(result.overall_risk) <= TierRank(prev_result.overall_risk)
        /\ prev_result.total_score < result.total_score
               => TierRank(prev_result.overall_risk) <= TierRank(result.overall_risk)

\* C2 amended: of two reports, equal totals after the discount and before the
\* truncation give equal overall_risk, the smaller such total never has the
\* higher tier, and the report with the smaller total_score never has the
\* higher tier.
C2_TierOfDiscountedTotal ==
    (IsReport(result) /\ IsReport(prev_result)) =>
        /\ run.post10 = prev_run.post10
               => result.overall_risk = prev_result.overall_risk
        /\ run.post10 < prev_run.post10
               => TierRank(result.overall_risk) <= TierRank(prev_result.overall_risk)
        /\ prev_run.post10 < run.post10
               => TierRank(prev_result.overall_risk) <= TierRank(result.overall_risk)
        /\ result.total_score < prev_result.total_score
               => TierRank(result.overall_risk) <= TierRank(prev_result.overall_risk)
        /\ prev_result.total_score < result.total_score
               => TierRank(prev_result.overall_risk) <= TierRank(result.overall_risk)

\* Two reports, one of an allowlisted package, with the same total_score and
\* totals before the truncation on the two sides of a threshold.
C2_Witness ==
    /\ IsReport(result)
    /\ IsReport(prev_result)
    /\ run.allow
    /\ ~prev_run.allow
    /\ result.total_score = prev_result.total_score
    /\ run.post10 > prev_run.post10
    /\ TierRank(result.overall_risk) > TierRank(prev_result.overall_risk)

\* C3 as stated: the total after the discount is not negative and not above
\* the total T before it, is below T whenever the discount is applied, and is
\* T exactly when the package is not allowlisted.
C3_DiscountStrictlyReduces ==
    (IsReport(result) /\ run.pre >= 0) =>
        /\ run.post10 >= 0
        /\ run.post10 <= 10 * run.pre
        /\ run.allow => run.post10 < 10 * run.pre
        /\ run.post10 = 10 * run.pre <=> ~run.allow

\* C3 amended: the total after the discount is not negative and not above T,
\* is below T whenever the discount is applied to a T above 0, and is T
\* exactly when the package is not allowlisted or T is 0.
C3_DiscountReducesPositive ==
    (IsReport(result) /\ run.pre >= 0) =>
        /\ run.post10 >= 0
        /\ run.post10 <= 10 * run.pre
        /\ (run.allow /\ run.pre > 0) => run.post10 < 10 * run.pre
        /\ run.post10 = 10 * run.pre <=> (~run.allow \/ run.pre = 0)

\* A report of an allowlisted package whose total before the discount is above 0.
C3_Witness ==
    /\ IsReport(result)
    /\ run.allow
    /\ result.is_known_safe_app
    /\ run.pre > 0
    /\ run.post10 = 3 * run.pre

\* C8: analyze_apk returns a report with every field, after every stage, or a
\* record with an error description only; when the package name cannot be
\* determined it returns the error before any hashing, allowlist lookup or
\* scoring.
C8_ReportOrError ==
    result # NoResult =>
        /\ \/ DOMAIN result = ReportFields /\ run.stages = AllStages
           \/ DOMAIN result = {"error"} /\ run.stages = {}
        /\ (run.input.exists /\ run.input.parses /\ run.input.package = "")
               => DOMAIN result = {"error"} /\ run.stages = {}

\* A file whose package name cannot be determined was analyzed while the
\* allowlist had never been loaded and its file was there to load.
C8_Witness ==
    /\ IsError(result)
    /\ run.input.exists
    /\ run.input.parses
    /\ run.input.package = ""
    /\ safe_apps_cache.none
    /\ provider.state = "ok"

-----------------------------------------------------------------------------
(* app.py: the requests of one session.                                    *)

\* Requests handled in one run of the model.
MaxRequests == 3

InSession(r) == [none |-> FALSE, v |-> r]

\* None, and a string, as the value of a key.
NoneStr == [none |-> TRUE, v |-> ""]
SomeStr(str) == [none |-> FALSE, v |-> str]

\* d.get(key): None when d has no such key.
Get(d, key) == IF key \in DOMAIN d THEN SomeStr(d[key]) ELSE NoneStr

\* d[key] = value
SetKey(d, key, value) ==
    [k \in DOMAIN d \cup {key} |-> IF k = key THEN value ELSE d[k]]

\* str.endswith(suffix)
EndsWith(str, suffix) ==
    /\ Len(str) >= Len(suffix)
    /\ SubSeq(str, Len(str) - Len(suffix) + 1, Len(str)) = suffix

\* Line 44: the path of a history file written at time t.
HistoryPath(t, filename) == <<t, filename \o ".json">>

\* save_scan_result: the file is written, or the failure is logged.
save_scan_result(scan_result, filename, t, files, written) ==
    IF written
    THEN [n \in DOMAIN files \cup {HistoryPath(t, filename)} |->
             IF n = HistoryPath(t, filename) THEN scan_result ELSE files[n]]
    ELSE files

\* jsonify(body), status
Respond(status, body) == response' = [status |-> status, body |-> body]

\* What request.files holds, and the file behind it.
Upload(filename, saves, f) ==
    [has_file |-> TRUE, filename |-> filename, saves |-> saves, facts |-> f]

Uploads ==
    {[has_file |-> FALSE, filename |-> "", saves |-> FALSE, facts |-> MissingFile],
     Upload("", TRUE, MissingFile),
     Upload("notes.txt", TRUE, BrokenFile),
     Upload("full.apk", FALSE, MissingFile),
     Upload("Bank.APK", TRUE, Facts("Com.Bank", LowPerms, <<"su -c id">>, "present")),
     Upload("other.apk", TRUE, Facts("org.unknown", <<>>, <<"encrypt">>, "present")),
     Upload("noname.apk", TRUE, NamelessFile)}

\* scan: POST /scan with the upload u.
Scan(u) ==
    /\ nreq < MaxRequests
    /\ nreq' = nreq + 1
    /\ request' = [kind |-> "scan", upload |-> u]
    /\ IF ~u.has_file
       THEN /\ Respond(400, [error |-> "No file uploaded"])
            /\ UNCHANGED <<loadVars, pureVars, scanVars, session, history,
                           last_result, fp_written>>
       ELSE IF u.filename = ""
       THEN /\ Respond(400, [error |-> "No file selected"])
            /\ UNCHANGED <<loadVars, pureVars, scanVars, session, history,
                           last_result, fp_written>>
       ELSE IF ~EndsWith(Lower(u.filename), ".apk")
       THEN /\ Respond(400, [error |-> "Please upload an APK file"])
            /\ UNCHANGED <<loadVars, pureVars, scanVars, session, history,
                           last_result, fp_written>>
       ELSE IF ~u.saves
       THEN /\ Respond(500, [error |-> "Internal server error"])
            /\ UNCHANGED <<loadVars, pureVars, scanVars, session, history,
                           last_result, fp_written>>
       ELSE \E a \in {analyze_apk(u.facts, safe_apps_cache, safe_apps_last_loaded,
                                  now, provider)},
               failed \in BOOLEAN :
                /\ Analyzed(a)
                /\ history' = save_scan_result(a.result, u.filename, now, history, ~failed)
                /\ session' = InSession(a.result)
                /\ fp_written' = <<>>
                /\ Respond(200, a.result)
                /\ UNCHANGED last_result

\* The body of a POST /report-false-positive: JSON that does not parse, the
\* JSON null, or a JSON object whose values are strings or null.
BadJson == [parses |-> FALSE, none |-> TRUE, v |-> <<>>]
NullJson == [parses |-> TRUE, none |-> TRUE, v |-> <<>>]
JsonObject(d) == [parses |-> TRUE, none |-> FALSE, v |-> d]

ReportBodies ==
    {BadJson, NullJson, JsonObject(<<>>),
     JsonObject([k \in {"reason"} |-> SomeStr("it is my bank")]),
     JsonObject([k \in {"package_name"} |-> NoneStr]),
     JsonObject([k \in {"package_name"} |-> SomeStr("Com.Bank")]),
     JsonObject([k \in {"package_name"} |-> SomeStr("org.unknown")]),
     JsonObject([k \in {"package_name", "reason"} |->
                    IF k = "reason" THEN SomeStr("it is my bank") ELSE SomeStr("Com.Bank")])}

\* Line 104: data.get('reason', 'No reason provided')
ReasonOf(data) ==
    IF "reason" \in DOMAIN data THEN data["reason"] ELSE SomeStr("No reason provided")

\* Lines 103-105: the three fields set in last_result at time t.
MarkFalsePositive(last, data, t) ==
    SetKey(SetKey(SetKey(last, "false_positive_reported", TRUE),
                  "false_positive_reason", ReasonOf(data)),
           "false_positive_timestamp", t)

\* Line 108: f"false_positive_{data['package_name']}"
FalsePositiveName(name) == "false_positive_" \o (IF name.none THEN "None" ELSE name.v)

\* report_false_positive: POST /report-false-positive with the body b. The
\* dict mutated is the one session.get returned: whether the session keeps the
\* change is up to the session interface, which is told of no modification.
ReportFalsePositive(b) ==
    /\ nreq < MaxRequests
    /\ nreq' = nreq + 1
    /\ request' = [kind |-> "report", body |-> b]
    /\ UNCHANGED <<loadVars, pureVars, scanVars>>
    /\ IF ~b.parses
       THEN /\ Respond(500, [error |-> "Internal server error"])
            /\ UNCHANGED <<session, history, last_result, fp_written>>
       ELSE IF b.none \/ DOMAIN b.v = {} \/ "package_name" \notin DOMAIN b.v
       THEN /\ Respond(400, [error |-> "Package name required"])
            /\ UNCHANGED <<session, history, last_result, fp_written>>
       ELSE IF \/ session.none
               \/ DOMAIN session.v = {}
               \/ Get(session.v, "package") # b.v["package_name"]
       THEN /\ Respond(400, [error |-> "No matching scan result found"])
            /\ UNCHANGED <<session, history, last_result, fp_written>>
       ELSE \E marked \in {MarkFalsePositive(session.v, b.v, now)},
               kept \in BOOLEAN, failed \in BOOLEAN :
                /\ last_result' = marked
                /\ session' = IF kept THEN InSession(marked) ELSE session
                /\ history' = save_scan_result(marked,
                                  FalsePositiveName(b.v["package_name"]),
                                  now, history, ~failed)
                /\ fp_written' = Append(fp_written,
                                        [reason |-> marked["false_positive_reason"],
                                         timestamp |-> marked["false_positive_timestamp"]])
                /\ Respond(200, [message |-> "False positive reported successfully"])

\* Line 26: load_safe_apps() when app.py is imported, then no request yet.
InitServe ==
    /\ InitPure
    /\ InitScan
    /\ InitApp
    /\ now = 0
    /\ provider \in ScanProviderStates
    /\ \E s \in {load_safe_apps(NoneSet, NoneTime, 0, provider)} :
          /\ safe_apps_cache = s.cache
          /\ safe_apps_last_loaded = s.loaded
          /\ last_good = s.cache
    /\ pc = [t \in Callers |-> "idle"]
    /\ frame = [t \in Callers |-> NoFrame]
    /\ ret = [t \in Callers |-> NoRet]
    /\ cache_read_at = 0

Next ==
    \/ \E u \in Uploads : Scan(u)
    \/ \E b \in ReportBodies : ReportFalsePositive(b)
    \/ TickBy(TTL)
    \/ ProviderChange(ScanProviderStates)

Spec == InitServe /\ [][Next]_vars

\* C6: the false-positive fields of a report are written by one
\* report-false-positive request only: a second matching request writes no
\* reason and no timestamp over the ones recorded.
C6_AnnotatedOnce ==
    /\ Len(fp_written) <= 1
    /\ \A i \in 1..Len(fp_written) : fp_written[i] = fp_written[1]

\* The package of the body b is the package of the report held in the session.
Matches(sess, b) ==
    /\ ~sess.none
    /\ IsReport(sess.v)
    /\ b.parses
    /\ ~b.none
    /\ "package_name" \in DOMAIN b.v
    /\ ~b.v["package_name"].none
    /\ b.v["package_name"].v = sess.v.package

\* C7: a report-false-positive request whose package matches the report in the
\* session sets false_positive_reported with a reason and a timestamp; any
\* other one (no scan yet, an error result, another package) is answered with
\* an error and changes neither the session nor the history.
C7_UpdateOnlyOnMatch ==
    [][(request'.kind = "report" /\ nreq' = nreq + 1) =>
          IF Matches(session, request'.body)
          THEN /\ response'.status = 200
               /\ last_result'["false_positive_reported"] = TRUE
               /\ "false_positive_reason" \in DOMAIN last_result'
               /\ last_result'["false_positive_timestamp"] = now
          ELSE /\ response'.status >= 400
               /\ session' = session
               /\ history' = history]_vars

-----------------------------------------------------------------------------
(* analyze_apk: the arithmetic of a report.                                *)

\* The tier the thresholds give to a total, in tenths.
TierOfTenths(total10) ==
    IF total10 > 5000 THEN "Dangerous"
    ELSE IF total10 > 2000 THEN "Potentially Risky"
    ELSE IF total10 > 500 THEN "Moderate Risk"
    ELSE "Likely Safe"

\* C11: in every report the total before the discount is the sum of the four
\* reported sub-scores, the total after it is 0.3 of that for an allowlisted
\* package and the same otherwise, the tier is the one the thresholds 500,
\* 200 and 50 give to the total after the discount, total_score is that total
\* truncated, risk_note says "Known safe app (score reduced)" exactly when
\* the package is allowlisted, and a total of 600 of an allowlisted package
\* gives 180 and "Moderate Risk".
C11_ReportArithmetic ==
    IsReport(result) =>
        /\ run.pre = result.permission_score + result.url_score
                         + result.code_analysis_score + result.certificate_score
        /\ run.post10 = IF run.allow THEN 3 * run.pre ELSE 10 * run.pre
        /\ result.overall_risk = TierOfTenths(run.post10)
        /\ result.total_score = run.post10 \div 10
        /\ result.is_known_safe_app = run.allow
        /\ run.allow => Normalize(result.package) \in safe_apps_cache.v
        /\ result.risk_note = "Known safe app (score reduced)" <=> run.allow
        /\ result.risk_note \in {"Known safe app (score reduced)", "Unknown app"}
        /\ (run.allow /\ run.pre = 600)
               => result.total_score = 180 /\ result.overall_risk = "Moderate Risk"

\* The report of an allowlisted package whose sub-scores add up to 600.
C11_Witness ==
    /\ IsReport(result)
    /\ run.allow
    /\ result.risk_note = "Known safe app (score reduced)"
    /\ result.code_analysis_score = 600
    /\ run.pre = 600
    /\ result.total_score = 180
    /\ result.overall_risk = "Moderate Risk"
====
